---- MODULE Spec2Model ----
(***************************************************************************)
(* The live session engine of the LiveSession component                    *)
(* (src/unnamed/part_001): connection lifecycle, resource teardown, the    *)
(* playback scheduler, the interrupt branch, and the tool-call loop with   *)
(* its task timers.                                                        *)
(*                                                                         *)
(* Time is counted in whole seconds of one wall clock `now`; every         *)
(* AudioContext reads it relative to the moment it was created and stops   *)
(* reading it when it is closed.                                            *)
(***************************************************************************)
EXTENDS Integers, Sequences, FiniteSets, TLC

\* ------------------------------------------------------------------ bounds
MaxSessions == 2
MaxCams == 2
MaxMsgs == 3
MaxToolMsgs == 2
MaxCalls == 2
MaxDur == 2
MaxClock == 3
MaxTaskClock == 6

\* ------------------------------------------------- program constants (s)
SearchCompletedDelay == 1
SearchIdleDelay == 2
OrderPaymentDelay == 2
OpenIdleDelay == 2
PaymentIdleDelay == 3

VARIABLES
  \* React state (lines 28-34)
  isActive, isCameraActive, status, volume, task, activeWidget,
  \* refs (lines 40-52); 0 stands for null, g > 0 for the object that the
  \* g-th startSession (or c-th startVideo) created
  inputContextRef, outputContextRef, sessionPromiseRef, scriptProcessorRef,
  sourceNodeRef, audioStreamRef, nextStartTimeRef, sourcesRef,
  videoStreamRef, frameIntervalRef,
  \* the platform: environment key, wall clock, the objects each startSession /
  \* startVideo invocation created, the buffer sources, the running onmessage
  \* invocations, the tool responses handed to the session, the task timers
  apiKey, now, sess, cams, bufs, handlers, sent, timers,
  \* history: stopSession has run and startSession has not run since
  stopped

uiVars == <<isActive, isCameraActive, status, volume, task, activeWidget>>
refVars ==
  <<inputContextRef, outputContextRef, sessionPromiseRef, scriptProcessorRef,
    sourceNodeRef, audioStreamRef, nextStartTimeRef, sourcesRef,
    videoStreamRef, frameIntervalRef>>
envVars == <<apiKey, now, sess, cams, bufs, handlers, sent, timers>>
vars == <<uiVars, refVars, envVars, stopped>>

\* ----------------------------------------------------------------- values
Sessions == 1..MaxSessions
Cams == 1..MaxCams

Min(a, b) == IF a <= b THEN a ELSE b

\* A clamp that takes the smaller of the two
MaxAsMin(a, b) == Min(a, b)

Max(a, b) == IF a >= b THEN a ELSE b

\* TaskState after useState (line 33) and after every reset to idle
IdleTask ==
  [isActive |-> FALSE, appName |-> "undefined", actionDescription |-> <<>>,
   status |-> "idle", details |-> <<>>]

\* activeWidget === null
NoWidget == [type |-> "null"]

\* What one startSession invocation owns before it has run
NoSession ==
  [pc |-> "none", inCtx |-> "none", outCtx |-> "none", born |-> 0, died |-> 0,
   mic |-> "none", chan |-> "none", closeReq |-> FALSE, proc |-> "none"]

\* What one startVideo invocation owns before it has run
NoCam == [pc |-> "none", stream |-> "none", timer |-> "none"]

\* outputCtx.currentTime of the g-th session's output context
CurrentTime(g) ==
  IF sess[g].outCtx = "closed" THEN sess[g].died - sess[g].born
  ELSE now - sess[g].born

\* the number of startSession / startVideo invocations that created objects
Started == Cardinality({g \in Sessions : sess[g].pc # "none"})
CamsStarted == Cardinality({c \in Cams : cams[c].pc # "none"})

Init ==
  /\ isActive = FALSE
  /\ isCameraActive = FALSE
  /\ status = "SYSTEM STANDBY"
  /\ volume = 0
  /\ task = IdleTask
  /\ activeWidget = NoWidget
  /\ inputContextRef = 0
  /\ outputContextRef = 0
  /\ sessionPromiseRef = 0
  /\ scriptProcessorRef = 0
  /\ sourceNodeRef = 0
  /\ audioStreamRef = 0
  /\ nextStartTimeRef = 0
  /\ sourcesRef = {}
  /\ videoStreamRef = 0
  /\ frameIntervalRef = 0
  /\ apiKey \in BOOLEAN
  /\ now = 0
  /\ sess = [g \in Sessions |-> NoSession]
  /\ cams = [c \in Cams |-> NoCam]
  /\ bufs = <<>>
  /\ handlers = <<>>
  /\ sent = <<>>
  /\ timers = <<>>
  /\ stopped = FALSE


\* ------------------------------------------------------ resource teardown

\* sourcesRef.current.forEach(s => s.stop()): every source of the live set is
\* stopped at its own context's clock. First, a teardown that forgets the
\* stop and only clears the set:
StopSourcesNone == bufs

\* A teardown that stops the first source of the set only
StopSourcesFirstOnly ==
  [b \in 1..Len(bufs) |->
     IF b \in sourcesRef /\ bufs[b].st = "live" /\ (\A c \in sourcesRef : b <= c)
     THEN [bufs[b] EXCEPT !.st = "stopped", !.stoppedAt = CurrentTime(bufs[b].g)]
     ELSE bufs[b]]

\* sourcesRef.current.forEach(s => s.stop())
StopSources ==
  [b \in 1..Len(bufs) |->
     IF b \in sourcesRef /\ bufs[b].st = "live"
     THEN [bufs[b] EXCEPT !.st = "stopped", !.stoppedAt = CurrentTime(bufs[b].g)]
     ELSE bufs[b]]

\* session.close() on the g-th channel: a channel that is open starts
\* closing; on one that is still connecting the close is registered on the
\* pending promise (line 187) and runs when it resolves
CloseChannel(s) ==
  IF s.chan = "open" THEN [s EXCEPT !.chan = "closing"]
  ELSE IF s.chan = "connecting" THEN [s EXCEPT !.closeReq = TRUE]
  ELSE s

\* cleanupAudio (lines 164-189): what becomes of the objects the refs name
CleanupAudioSess ==
  [g \in Sessions |->
     LET s1 == sess[g]
         s2 == IF (scriptProcessorRef = g \/ sourceNodeRef = g) /\ s1.proc = "connected"
               THEN [s1 EXCEPT !.proc = "disconnected"] ELSE s1
         s3 == IF audioStreamRef = g /\ s2.mic = "live"
               THEN [s2 EXCEPT !.mic = "stopped"] ELSE s2
         s4 == IF inputContextRef = g /\ s3.inCtx = "running"
               THEN [s3 EXCEPT !.inCtx = "closed"] ELSE s3
         s5 == IF outputContextRef = g /\ s4.outCtx = "running"
               THEN [s4 EXCEPT !.outCtx = "closed", !.died = now] ELSE s4
     IN IF sessionPromiseRef = g THEN CloseChannel(s5) ELSE s5]

\* cleanupAudio: the refs and the live set afterwards
CleanupAudioRefs ==
  /\ sourcesRef' = {}
  /\ scriptProcessorRef' = 0
  /\ sourceNodeRef' = 0
  /\ audioStreamRef' = 0
  /\ inputContextRef' = 0
  /\ outputContextRef' = 0
  /\ sessionPromiseRef' = 0

\* cleanupVideo (lines 191-200)
CleanupVideoCams ==
  [c \in Cams |->
     LET c1 == cams[c]
         c2 == IF frameIntervalRef = c /\ c1.timer = "on"
               THEN [c1 EXCEPT !.timer = "cleared"] ELSE c1
     IN IF videoStreamRef = c /\ c2.stream = "live"
        THEN [c2 EXCEPT !.stream = "stopped"] ELSE c2]

\* ------------------------------------------------------------- the camera

\* toggleCamera (lines 247-251) with the camera on: stopVideo (lines 221-224)
StopVideo ==
  /\ isCameraActive
  /\ cams' = CleanupVideoCams
  /\ frameIntervalRef' = 0
  /\ videoStreamRef' = 0
  /\ isCameraActive' = FALSE
  /\ UNCHANGED <<isActive, status, volume, task, activeWidget>>
  /\ UNCHANGED <<inputContextRef, outputContextRef, sessionPromiseRef,
                 scriptProcessorRef, sourceNodeRef, audioStreamRef,
                 nextStartTimeRef, sourcesRef>>
  /\ UNCHANGED <<apiKey, now, sess, bufs, handlers, sent, timers, stopped>>

\* toggleCamera with the camera off and the session active: startVideo up to
\* its await of getUserMedia (line 204)
StartVideo ==
  /\ ~isCameraActive
  /\ isActive
  /\ CamsStarted < MaxCams
  /\ cams' = [cams EXCEPT ![CamsStarted + 1] = [NoCam EXCEPT !.pc = "gum"]]
  /\ UNCHANGED <<uiVars, refVars, stopped>>
  /\ UNCHANGED <<apiKey, now, sess, bufs, handlers, sent, timers>>

\* startVideo after getUserMedia resolved (lines 205-214)
CamResolve(c) ==
  /\ cams[c].pc = "gum"
  /\ cams' = [cams EXCEPT ![c] = [pc |-> "done", stream |-> "live", timer |-> "on"]]
  /\ videoStreamRef' = c
  /\ frameIntervalRef' = c
  /\ isCameraActive' = TRUE
  /\ UNCHANGED <<isActive, status, volume, task, activeWidget>>
  /\ UNCHANGED <<inputContextRef, outputContextRef, sessionPromiseRef,
                 scriptProcessorRef, sourceNodeRef, audioStreamRef,
                 nextStartTimeRef, sourcesRef>>
  /\ UNCHANGED <<apiKey, now, sess, bufs, handlers, sent, timers, stopped>>

\* A catch that gives up the session along with the camera
CamRejectEndsSession(c) ==
  /\ cams[c].pc = "gum"
  /\ cams' = [cams EXCEPT ![c].pc = "failed"]
  /\ isCameraActive' = FALSE
  /\ isActive' = FALSE
  /\ status' = "INITIALIZATION FAILED"
  /\ UNCHANGED <<volume, task, activeWidget>>
  /\ UNCHANGED <<refVars, stopped>>
  /\ UNCHANGED <<apiKey, now, sess, bufs, handlers, sent, timers>>

\* startVideo after getUserMedia rejected (lines 215-218)
CamReject(c) ==
  /\ cams[c].pc = "gum"
  /\ cams' = [cams EXCEPT ![c].pc = "failed"]
  /\ isCameraActive' = FALSE
  /\ UNCHANGED <<isActive, status, volume, task, activeWidget>>
  /\ UNCHANGED <<refVars, stopped>>
  /\ UNCHANGED <<apiKey, now, sess, bufs, handlers, sent, timers>>

\* ------------------------------------------------------------ the session

\* startSession (lines 261-282) up to its await of getUserMedia; the button
\* offers it while isActive is false (line 634)
StartSession ==
  /\ ~isActive
  /\ IF ~apiKey
     THEN /\ status' = "Error: API Key missing"
          /\ stopped' = FALSE
          /\ UNCHANGED <<isActive, isCameraActive, volume, task, activeWidget>>
          /\ UNCHANGED <<refVars, envVars>>
     ELSE /\ Started < MaxSessions
          /\ status' = "INITIALIZING NEURAL LINK..."
          /\ isActive' = TRUE
          /\ sess' = [sess EXCEPT ![Started + 1] =
                        [NoSession EXCEPT !.pc = "gum", !.inCtx = "running",
                                          !.outCtx = "running", !.born = now]]
          /\ inputContextRef' = Started + 1
          /\ outputContextRef' = Started + 1
          /\ nextStartTimeRef' = 0
          /\ stopped' = FALSE
          /\ UNCHANGED <<isCameraActive, volume, task, activeWidget>>
          /\ UNCHANGED <<sessionPromiseRef, scriptProcessorRef, sourceNodeRef,
                         audioStreamRef, sourcesRef, videoStreamRef, frameIntervalRef>>
          /\ UNCHANGED <<apiKey, now, cams, bufs, handlers, sent, timers>>

\* startSession after getUserMedia resolved (lines 291-430): the stream is
\* kept, the channel is connected and its promise stored
GumResolve(g) ==
  /\ sess[g].pc = "gum"
  /\ sess' = [sess EXCEPT ![g].pc = "done", ![g].mic = "live", ![g].chan = "connecting"]
  /\ audioStreamRef' = g
  /\ status' = "ESTABLISHING UPLINK..."
  /\ sessionPromiseRef' = g
  /\ UNCHANGED <<isActive, isCameraActive, volume, task, activeWidget>>
  /\ UNCHANGED <<inputContextRef, outputContextRef, scriptProcessorRef, sourceNodeRef,
                 nextStartTimeRef, sourcesRef, videoStreamRef, frameIntervalRef>>
  /\ UNCHANGED <<apiKey, now, cams, bufs, handlers, sent, timers, stopped>>

\* startSession after getUserMedia rejected: the catch (lines 431-435)
GumReject(g) ==
  /\ sess[g].pc = "gum"
  /\ status' = "INITIALIZATION FAILED"
  /\ isActive' = FALSE
  /\ sess' = [CleanupAudioSess EXCEPT ![g].pc = "failed"]
  /\ bufs' = StopSources
  /\ CleanupAudioRefs
  /\ UNCHANGED <<isCameraActive, volume, task, activeWidget>>
  /\ UNCHANGED <<nextStartTimeRef, videoStreamRef, frameIntervalRef>>
  /\ UNCHANGED <<apiKey, now, cams, handlers, sent, timers, stopped>>

\* onopen (lines 311-334); the connect promise resolves with it, so a close
\* registered on the pending promise runs now. On an input context that was
\* closed meanwhile createMediaStreamSource either throws (the node refs stay
\* as they are) or returns a node, as the browser decides.
OnOpen(g) ==
  /\ sess[g].chan = "connecting"
  /\ status' = "NEURAL LINK ACTIVE"
  /\ \E thrown \in (IF sess[g].inCtx = "closed" THEN BOOLEAN ELSE {FALSE}) :
       LET s1 == [sess[g] EXCEPT !.chan = IF sess[g].closeReq THEN "closing" ELSE "open",
                                 !.closeReq = FALSE]
       IN IF thrown
          THEN /\ sess' = [sess EXCEPT ![g] = s1]
               /\ UNCHANGED <<sourceNodeRef, scriptProcessorRef>>
          ELSE /\ sess' = [sess EXCEPT ![g] = [s1 EXCEPT !.proc = "connected"]]
               /\ sourceNodeRef' = g
               /\ scriptProcessorRef' = g
  /\ UNCHANGED <<isActive, isCameraActive, volume, task, activeWidget>>
  /\ UNCHANGED <<inputContextRef, outputContextRef, sessionPromiseRef, audioStreamRef,
                 nextStartTimeRef, sourcesRef, videoStreamRef, frameIntervalRef>>
  /\ UNCHANGED <<apiKey, now, cams, bufs, handlers, sent, timers, stopped>>

\* onclose (lines 419-422): the server closed the channel, the closing
\* handshake finished, or the socket went down after an error
OnClose(g) ==
  /\ sess[g].chan \in {"open", "closing", "errored"}
  /\ sess' = [sess EXCEPT ![g].chan = "closed"]
  /\ status' = "DISCONNECTED"
  /\ isActive' = FALSE
  /\ UNCHANGED <<isCameraActive, volume, task, activeWidget>>
  /\ UNCHANGED <<refVars, stopped>>
  /\ UNCHANGED <<apiKey, now, cams, bufs, handlers, sent, timers>>

\* onerror (lines 423-427): the socket failed; its close event follows
OnError(g) ==
  /\ sess[g].chan \in {"connecting", "open", "closing"}
  /\ sess' = [sess EXCEPT ![g].chan = "errored"]
  /\ status' = "CONNECTION ERROR"
  /\ isActive' = FALSE
  /\ UNCHANGED <<isCameraActive, volume, task, activeWidget>>
  /\ UNCHANGED <<refVars, stopped>>
  /\ UNCHANGED <<apiKey, now, cams, bufs, handlers, sent, timers>>

\* stopSession (lines 438-445): stopVideo, cleanupAudio and the state resets
StopSession ==
  /\ isActive' = FALSE
  /\ cams' = CleanupVideoCams
  /\ frameIntervalRef' = 0
  /\ videoStreamRef' = 0
  /\ isCameraActive' = FALSE
  /\ sess' = CleanupAudioSess
  /\ bufs' = StopSources
  /\ CleanupAudioRefs
  /\ status' = "SESSION TERMINATED"
  /\ volume' = 0
  /\ activeWidget' = NoWidget
  /\ stopped' = TRUE
  /\ UNCHANGED <<task, nextStartTimeRef>>
  /\ UNCHANGED <<apiKey, now, handlers, sent, timers>>

\* onaudioprocess (lines 320-330): one capture block; the volume is its RMS
\* (0 for silence), the frame goes to the session the closure holds
AudioProcess(g) ==
  /\ sess[g].proc = "connected"
  /\ sess[g].inCtx = "running"
  /\ \E v \in 0..1 : volume' = v
  /\ UNCHANGED <<isActive, isCameraActive, status, task, activeWidget>>
  /\ UNCHANGED <<refVars, envVars, stopped>>

\* The wall clock advances one second while some audio context reads it
TickTo(limit) ==
  /\ now < limit
  /\ (\E g \in Sessions : sess[g].outCtx = "running") \/ timers # <<>>
  /\ now' = now + 1
  /\ UNCHANGED <<uiVars, refVars, stopped>>
  /\ UNCHANGED <<apiKey, sess, cams, bufs, handlers, sent, timers>>

Tick == TickTo(MaxClock)


\* --------------------------------------------------------- the tool calls

\* tools: [{ functionDeclarations: [...] }] (line 308)
DeclaredTools ==
  {"set_reminder", "change_tab", "get_weather", "get_stock_price", "open_app",
   "order_food", "search_web", "render_widget"}

\* widget_type values with a branch of their own (lines 355-358)
WidgetTypes == {"weather_card", "stock_chart", "map_view", "note_pad"}

\* x || default on a string and on a number: undefined, "" and 0 are falsy
OrStr(x, d) == IF x \in {"undefined", ""} THEN d ELSE x
OrNum(x, d) == IF x \in {-1, 0} THEN d ELSE x

\* The widget a render_widget call sets (lines 355-358); the stock history is
\* ten random numbers around the price and is kept as the price they surround
RenderWidget(type, data) ==
  IF type = "weather_card"
  THEN [type |-> "weather",
        data |-> [location |-> OrStr(data.location, "Unknown"),
                  temp |-> OrNum(data.temp, 22),
                  condition |-> OrStr(data.condition, "Sunny")]]
  ELSE IF type = "stock_chart"
  THEN [type |-> "stock",
        data |-> [symbol |-> OrStr(data.symbol, "STK"),
                  price |-> OrNum(data.price, 100),
                  history |-> OrNum(data.price, 100)]]
  ELSE IF type = "map_view"
  THEN [type |-> "map", data |-> [location |-> data.location]]
  ELSE [type |-> "note",
        data |-> [title |-> OrStr(data.title, "Note"),
                  content |-> OrStr(data.content, "")]]

\* The accesses of a handler that raise a TypeError inside the try (lines
\* 351-397): a property of fc.args when args is undefined, a property of
\* data when data is undefined, toLowerCase of an undefined tab_name.
\* onSetReminder is not passed by App, so set_reminder reads nothing.
Throws(fc) ==
  IF fc.name = "render_widget"
  THEN fc.args.none \/ (fc.args.widget_type \in WidgetTypes /\ fc.args.data.none)
  ELSE IF fc.name = "change_tab"
  THEN fc.args.none \/ fc.args.tab_name = "undefined"
  ELSE IF fc.name \in {"get_weather", "get_stock_price", "search_web", "order_food", "open_app"}
  THEN fc.args.none
  ELSE FALSE

\* The payload of the catch (line 400)
CatchResult == [error |-> TRUE, result |-> "Tool execution failed"]

\* A setTask that leaves a task in progress alone
SetTaskIfIdle(st, t) == IF st.task.isActive THEN st ELSE [st EXCEPT !.task = t]

\* setTask({...}) of a handler (lines 382, 389, 394): the slot is overwritten
SetTask(st, t) == [st EXCEPT !.task = t]

\* One iteration of the loop up to the response or the await (lines 348-401):
\* st is <<task, activeWidget, timers>> as a record; the outcome is the state
\* after it, the payload, and whether the handler now awaits the search
HandleCall(st, fc) ==
  IF Throws(fc)
  THEN [st |-> st, await |-> FALSE, result |-> CatchResult]
  ELSE IF fc.name = "render_widget"
  THEN [st |-> IF fc.args.widget_type \in WidgetTypes
               THEN [st EXCEPT !.activeWidget = RenderWidget(fc.args.widget_type, fc.args.data)]
               ELSE st,
        await |-> FALSE,
        result |-> [error |-> FALSE, result |-> "Widget rendered successfully."]]
  ELSE IF fc.name = "set_reminder"
  THEN [st |-> st, await |-> FALSE, result |-> [error |-> FALSE, result |-> "Reminder set."]]
  ELSE IF fc.name = "change_tab"
  THEN [st |-> st, await |-> FALSE, result |-> [error |-> FALSE, result |-> "Switched view"]]
  ELSE IF fc.name = "get_weather"
  THEN [st |-> st, await |-> FALSE, result |-> [error |-> FALSE, result |-> "weather"]]
  ELSE IF fc.name = "get_stock_price"
  THEN [st |-> st, await |-> FALSE, result |-> [error |-> FALSE, result |-> "price"]]
  ELSE IF fc.name = "search_web"
  THEN [st |-> SetTask(st,
                  [isActive |-> TRUE, appName |-> "NetSearch", status |-> "searching",
                   actionDescription |-> <<"QUERYING GLOBAL NETWORK", fc.args.query>>,
                   details |-> <<>>]),
        await |-> TRUE,
        result |-> [error |-> FALSE, result |-> "search"]]
  ELSE IF fc.name = "order_food"
  THEN [st |-> [SetTask(st,
                   [isActive |-> TRUE, appName |-> "FoodDelivery",
                    status |-> "processing",
                    actionDescription |-> <<"Ordering", fc.args.item>>,
                    details |-> <<fc.args.item, "25.00">>])
                 EXCEPT
                  !.timers = Append(@, [kind |-> "payment", due |-> now + OrderPaymentDelay,
                                        by |-> fc.id])],
        await |-> FALSE,
        result |-> [error |-> FALSE, result |-> "Order staged. Waiting for payment."]]
  ELSE IF fc.name = "open_app"
  THEN [st |-> [SetTask(st,
                   [isActive |-> TRUE, appName |-> fc.args.app_name,
                    status |-> "opening", actionDescription |-> <<"LAUNCHING...">>,
                    details |-> <<>>])
                 EXCEPT
                  !.timers = Append(@, [kind |-> "idle", due |-> now + OpenIdleDelay,
                                        by |-> fc.id])],
        await |-> FALSE,
        result |-> [error |-> FALSE, result |-> "App opened."]]
  ELSE [st |-> st, await |-> FALSE, result |-> [error |-> FALSE, result |-> "ok"]]

\* sessionPromise.then(session => session.sendToolResponse(...)) (line 402) on
\* the session of the closure; a socket that is not open drops what is sent
Respond(st, fc, result, g) ==
  [st EXCEPT !.sent = Append(@, [id |-> fc.id, name |-> fc.name, response |-> result,
                                 delivered |-> sess[g].chan = "open"])]

\* The for loop from call i on (line 347), up to the first await or the end
RECURSIVE RunCalls(_, _, _, _)
RunCalls(st, calls, i, g) ==
  IF i > Len(calls)
  THEN [st |-> st, i |-> i, pc |-> "audio"]
  ELSE LET r == HandleCall(st, calls[i])
       IN IF r.await
          THEN [st |-> r.st, i |-> i, pc |-> "search"]
          ELSE RunCalls(Respond(r.st, calls[i], r.result, g), calls, i + 1, g)

\* The handler state as RunCalls threads it
ToolState == [task |-> task, activeWidget |-> activeWidget, timers |-> timers, sent |-> sent]

\* The handlers with the h-th one set to rec (appended when it is new)
PutHandler(h, rec) ==
  IF h > Len(handlers) THEN Append(handlers, rec) ELSE [handlers EXCEPT ![h] = rec]

\* onmessage from call i of handler h on (lines 346-408), after the state st:
\* the rest of the loop, then the watermark of an audio part and the await of
\* its decoding
Proceed(h, rec, st, i) ==
  LET r == RunCalls(st, rec.msg.calls, i, rec.g)
  IN /\ task' = r.st.task
     /\ activeWidget' = r.st.activeWidget
     /\ timers' = r.st.timers
     /\ sent' = r.st.sent
     /\ IF r.pc = "search"
        THEN /\ handlers' = PutHandler(h, [rec EXCEPT !.i = r.i, !.pc = "search"])
             /\ UNCHANGED nextStartTimeRef
        ELSE IF rec.msg.audio # 0
        THEN /\ nextStartTimeRef' = Max(nextStartTimeRef, CurrentTime(rec.g))
             /\ handlers' = PutHandler(h, [rec EXCEPT !.i = r.i, !.pc = "decode",
                                                     !.readAt = CurrentTime(rec.g)])
        ELSE /\ handlers' = PutHandler(h, [rec EXCEPT !.i = r.i, !.pc = "done"])
             /\ UNCHANGED nextStartTimeRef

\* An interrupt that leaves the watermark where it was
InterruptWatermarkStale == nextStartTimeRef

\* The watermark an interrupt leaves (line 342)
InterruptWatermark ==
  IF outputContextRef = 0 THEN 0 ELSE CurrentTime(outputContextRef)

\* The calls of a message as the server numbers them: ids unique over the
\* connection
WithIds(shapes, h) ==
  [i \in 1..Len(shapes) |->
     [id |-> (h - 1) * (MaxCalls + 1) + i, name |-> shapes[i].name, args |-> shapes[i].args]]

\* onmessage (lines 335-418) on a message of the open channel of session g, up
\* to its first await
OnMessage(g, m) ==
  /\ sess[g].chan = "open"
  /\ Len(handlers) < MaxMsgs
  /\ LET h == Len(handlers) + 1
         msg == [m EXCEPT !.calls = WithIds(m.calls, h)]
         rec == [g |-> g, msg |-> msg, i |-> 1, pc |-> "run", readAt |-> -1, rej |-> {}]
     IN IF msg.interrupted
        THEN /\ bufs' = StopSources
             /\ sourcesRef' = {}
             /\ nextStartTimeRef' = InterruptWatermark
             /\ handlers' = Append(handlers, [rec EXCEPT !.pc = "done",
                                                         !.readAt = CurrentTime(g)])
             /\ UNCHANGED <<task, activeWidget, timers, sent>>
        ELSE /\ Proceed(h, rec, ToolState, 1)
             /\ UNCHANGED <<bufs, sourcesRef>>
  /\ UNCHANGED <<isActive, isCameraActive, status, volume>>
  /\ UNCHANGED <<inputContextRef, outputContextRef, sessionPromiseRef, scriptProcessorRef,
                 sourceNodeRef, audioStreamRef, videoStreamRef, frameIntervalRef>>
  /\ UNCHANGED <<apiKey, now, sess, cams, stopped>>

\* generateTextResponse resolved (geminiService.ts lines 51-87): the two
\* timers, the result and the response (lines 384-386, 402), then the loop
SearchResolve(h) ==
  /\ h \in 1..Len(handlers)
  /\ handlers[h].pc = "search"
  /\ LET rec == handlers[h]
         fc == rec.msg.calls[rec.i]
         st1 == [ToolState EXCEPT !.timers =
                   @ \o <<[kind |-> "completed", due |-> now + SearchCompletedDelay, by |-> fc.id],
                          [kind |-> "idle", due |-> now + SearchIdleDelay, by |-> fc.id]>>]
         st2 == Respond(st1, fc, [error |-> FALSE, result |-> "search"], rec.g)
     IN Proceed(h, rec, st2, rec.i + 1)
  /\ UNCHANGED <<isActive, isCameraActive, status, volume>>
  /\ UNCHANGED <<inputContextRef, outputContextRef, sessionPromiseRef, scriptProcessorRef,
                 sourceNodeRef, audioStreamRef, sourcesRef, videoStreamRef, frameIntervalRef>>
  /\ UNCHANGED <<apiKey, now, sess, cams, bufs, stopped>>

\* generateTextResponse rejected (geminiService.ts lines 88-91): the catch
\* (lines 398-401), the response, then the loop
SearchReject(h) ==
  /\ h \in 1..Len(handlers)
  /\ handlers[h].pc = "search"
  /\ LET rec == [handlers[h] EXCEPT !.rej = @ \cup {handlers[h].i}]
         fc == rec.msg.calls[rec.i]
         st1 == Respond(ToolState, fc, CatchResult, rec.g)
     IN Proceed(h, rec, st1, rec.i + 1)
  /\ UNCHANGED <<isActive, isCameraActive, status, volume>>
  /\ UNCHANGED <<inputContextRef, outputContextRef, sessionPromiseRef, scriptProcessorRef,
                 sourceNodeRef, audioStreamRef, sourcesRef, videoStreamRef, frameIntervalRef>>
  /\ UNCHANGED <<apiKey, now, sess, cams, bufs, stopped>>


\* ------------------------------------------------------------ the playback

\* The latest interrupt message received so far (0: none)
LastInterrupt ==
  LET ints == {h \in 1..Len(handlers) : handlers[h].msg.interrupted}
  IN IF ints = {} THEN 0 ELSE CHOOSE h \in ints : \A k \in ints : k <= h

\* The moment a source starts to sound: start(when) with when in the past
\* plays at once
PlayStart(b) == Max(b.when, b.at)

\* The moment a source falls silent: its natural end, or the stop before it
PlayEnd(b) ==
  IF b.st = "stopped" THEN Min(b.stoppedAt, PlayStart(b) + b.dur)
  ELSE PlayStart(b) + b.dur

\* decodeBase64 and decodeAudioData (utils/audioUtils): decoding a chunk is a
\* suspension point of the handler; a pending decode settles at any later
\* moment, whatever the other pending decodes do
DecodeSettles(h) ==
  /\ h \in 1..Len(handlers)
  /\ handlers[h].pc = "decode"

\* A scheduler that starts every source at the current clock time
StartArgNow(g) == CurrentTime(g)

\* The start time handed to source.start (line 414)
StartArg(g) == nextStartTimeRef

\* onmessage after decodeAudioData resolved (lines 410-416): the source is
\* started at the watermark, the watermark advances by the duration, the
\* source joins the live set
DecodeDone(h) ==
  /\ DecodeSettles(h)
  /\ LET rec == handlers[h]
         src == [g |-> rec.g, h |-> h, when |-> StartArg(rec.g), at |-> CurrentTime(rec.g),
                 dur |-> rec.msg.audio, st |-> "live", stoppedAt |-> -1,
                 ep |-> LastInterrupt]
     IN /\ bufs' = Append(bufs, src)
        /\ nextStartTimeRef' = StartArg(rec.g) + rec.msg.audio
        /\ sourcesRef' = sourcesRef \cup {Len(bufs) + 1}
        /\ handlers' = [handlers EXCEPT ![h].pc = "done"]
  /\ UNCHANGED uiVars
  /\ UNCHANGED <<inputContextRef, outputContextRef, sessionPromiseRef, scriptProcessorRef,
                 sourceNodeRef, audioStreamRef, videoStreamRef, frameIntervalRef>>
  /\ UNCHANGED <<apiKey, now, sess, cams, sent, timers, stopped>>

\* onmessage after decodeBase64 / decodeAudioData failed (line 409): the
\* handler ends with the rejection, nothing is scheduled
DecodeFail(h) ==
  /\ DecodeSettles(h)
  /\ handlers' = [handlers EXCEPT ![h].pc = "failed"]
  /\ UNCHANGED <<uiVars, refVars, stopped>>
  /\ UNCHANGED <<apiKey, now, sess, cams, bufs, sent, timers>>

\* The 'ended' listener of a source that played to its end (line 413)
Ended(b) ==
  /\ b \in 1..Len(bufs)
  /\ bufs[b].st = "live"
  /\ sess[bufs[b].g].outCtx = "running"
  /\ CurrentTime(bufs[b].g) >= PlayStart(bufs[b]) + bufs[b].dur
  /\ bufs' = [bufs EXCEPT ![b].st = "ended"]
  /\ sourcesRef' = sourcesRef \ {b}
  /\ UNCHANGED uiVars
  /\ UNCHANGED <<inputContextRef, outputContextRef, sessionPromiseRef, scriptProcessorRef,
                 sourceNodeRef, audioStreamRef, nextStartTimeRef, videoStreamRef,
                 frameIntervalRef>>
  /\ UNCHANGED <<apiKey, now, sess, cams, handlers, sent, timers, stopped>>

\* ---------------------------------------------------------- the task timers

\* The task a timer callback leaves (lines 257, 384, 385, 390, 395)
TimerEffect(kind) ==
  IF kind = "completed" THEN [task EXCEPT !.status = "completed"]
  ELSE IF kind = "payment"
  THEN [task EXCEPT !.status = "payment", !.actionDescription = <<"Awaiting Authorization">>]
  ELSE IdleTask

\* timers without the k-th
RemoveAt(seq, k) == [j \in 1..(Len(seq) - 1) |-> IF j < k THEN seq[j] ELSE seq[j + 1]]

\* A setTimeout callback runs: the timer is due and no other timer was due
\* before it (earlier deadline, or the same deadline and set earlier)
FireTimer(k) ==
  /\ k \in 1..Len(timers)
  /\ timers[k].due <= now
  /\ \A j \in 1..Len(timers) :
       j # k => ~(timers[j].due < timers[k].due \/ (timers[j].due = timers[k].due /\ j < k))
  /\ task' = TimerEffect(timers[k].kind)
  /\ timers' = RemoveAt(timers, k)
  /\ UNCHANGED <<isActive, isCameraActive, status, volume, activeWidget>>
  /\ UNCHANGED <<refVars, stopped>>
  /\ UNCHANGED <<apiKey, now, sess, cams, bufs, handlers, sent>>

\* handlePayment (lines 253-259); its button shows while the task is active
\* with status payment (lines 538, 563-566)
HandlePayment ==
  /\ task.isActive
  /\ task.status = "payment"
  /\ task' = [task EXCEPT !.status = "completed"]
  /\ timers' = Append(timers, [kind |-> "idle", due |-> now + PaymentIdleDelay, by |-> 0])
  /\ UNCHANGED <<isActive, isCameraActive, status, volume, activeWidget>>
  /\ UNCHANGED <<refVars, stopped>>
  /\ UNCHANGED <<apiKey, now, sess, cams, bufs, handlers, sent>>


\* ------------------------------------------------------- the server messages

\* fc.args undefined, and a data object that is undefined
NoArgs == [none |-> TRUE]

\* Tool calls as the agent may issue them: one well-formed call of every
\* declared tool, a name that is not declared, a render_widget without its
\* data and an open_app without arguments
ToolShapes ==
  { [name |-> "render_widget",
     args |-> [none |-> FALSE, widget_type |-> "weather_card",
               data |-> [none |-> FALSE, location |-> "Tokyo", temp |-> 22,
                         condition |-> "Clear"]]],
    [name |-> "render_widget",
     args |-> [none |-> FALSE, widget_type |-> "weather_card", data |-> NoArgs]],
    [name |-> "set_reminder",
     args |-> [none |-> FALSE, message |-> "tea", delay_seconds |-> 5]],
    [name |-> "change_tab", args |-> [none |-> FALSE, tab_name |-> "chat"]],
    [name |-> "get_weather", args |-> [none |-> FALSE, location |-> "Tokyo"]],
    [name |-> "get_stock_price", args |-> [none |-> FALSE, symbol |-> "GOOG"]],
    [name |-> "search_web", args |-> [none |-> FALSE, query |-> "news"]],
    [name |-> "order_food", args |-> [none |-> FALSE, item |-> "pizza"]],
    [name |-> "open_app", args |-> [none |-> FALSE, app_name |-> "Maps"]],
    [name |-> "open_app", args |-> NoArgs],
    [name |-> "foo_bar", args |-> NoArgs] }

\* The batches of one to MaxCalls calls
RECURSIVE Batches(_)
Batches(n) ==
  IF n = 0 THEN {<<>>}
  ELSE LET shorter == Batches(n - 1)
       IN shorter \cup {Append(b, c) : b \in {x \in shorter : Len(x) = n - 1}, c \in ToolShapes}

\* Messages that carry tool calls, with or without the interrupted flag
ToolMsgs ==
  {[interrupted |-> f, calls |-> b, audio |-> 0] :
     f \in BOOLEAN, b \in Batches(MaxCalls) \ {<<>>}}

\* Messages that carry an audio chunk of d seconds, or the interrupt
AudioMsgs ==
  {[interrupted |-> FALSE, calls |-> <<>>, audio |-> d] : d \in 1..MaxDur}
    \cup {[interrupted |-> TRUE, calls |-> <<>>, audio |-> 0]}

\* Messages that carry a tool call and an audio chunk
MixedMsgs ==
  {[interrupted |-> FALSE, calls |-> <<c>>, audio |-> 1] : c \in ToolShapes}

\* ------------------------------------------------------- the specifications

\* The session is opened and plays what the agent sends
NextAudio ==
  \/ StartSession
  \/ \E g \in Sessions : GumResolve(g)
  \/ \E g \in Sessions : OnOpen(g)
  \/ \E g \in Sessions, m \in AudioMsgs : OnMessage(g, m)
  \/ \E h \in 1..MaxMsgs : DecodeDone(h)
  \/ \E h \in 1..MaxMsgs : DecodeFail(h)
  \/ \E b \in 1..MaxMsgs : Ended(b)
  \/ Tick

SpecAudio == Init /\ [][NextAudio]_vars

\* The session is opened and serves the agent's tool calls
NextTool ==
  \/ StartSession
  \/ \E g \in Sessions : GumResolve(g)
  \/ \E g \in Sessions : OnOpen(g)
  \/ \E g \in Sessions, m \in ToolMsgs : Len(handlers) < MaxToolMsgs /\ OnMessage(g, m)
  \/ \E h \in 1..MaxMsgs : SearchResolve(h)
  \/ \E h \in 1..MaxMsgs : SearchReject(h)

SpecTool == Init /\ [][NextTool]_vars

\* The session and the camera are started, stopped and lost
NextSession ==
  \/ StartSession
  \/ StopSession
  \/ StartVideo
  \/ StopVideo
  \/ \E c \in Cams : CamResolve(c)
  \/ \E c \in Cams : CamReject(c)
  \/ \E g \in Sessions : GumResolve(g)
  \/ \E g \in Sessions : GumReject(g)
  \/ \E g \in Sessions : OnOpen(g)
  \/ \E g \in Sessions : OnClose(g)
  \/ \E g \in Sessions : OnError(g)
  \/ \E g \in Sessions : AudioProcess(g)

SpecSession == Init /\ [][NextSession]_vars

\* Messages with one call that starts a task: open_app sets its timer at once,
\* search_web after its search
TaskMsgs ==
  {[interrupted |-> FALSE, calls |-> <<c>>, audio |-> 0] :
     c \in {x \in ToolShapes : x.name \in {"open_app", "search_web"} /\ ~x.args.none}}

\* Sessions are started, stopped and restarted while the agent's audio and
\* tasks are in flight
NextLife ==
  \/ StartSession
  \/ StopSession
  \/ \E g \in Sessions : GumResolve(g)
  \/ \E g \in Sessions : OnOpen(g)
  \/ \E g \in Sessions, m \in AudioMsgs \cup TaskMsgs :
       Len(handlers) < MaxToolMsgs /\ OnMessage(g, m)
  \/ \E h \in 1..MaxMsgs : SearchResolve(h)
  \/ \E h \in 1..MaxMsgs : DecodeDone(h)
  \/ \E b \in 1..MaxMsgs : Ended(b)
  \/ \E k \in 1..(3 * MaxMsgs) : FireTimer(k)
  \/ Tick

SpecLife == Init /\ [][NextLife]_vars

\* The data objects of render_widget calls: every field supplied, left out
\* ("undefined", -1) or supplied with a falsy value ("", 0)
WeatherData ==
  {[none |-> FALSE, location |-> l, temp |-> t, condition |-> c] :
     l \in {"undefined", "", "Tokyo"}, t \in {-1, 0, 22, 30}, c \in {"undefined", "Clear"}}

StockData ==
  {[none |-> FALSE, symbol |-> y, price |-> p] :
     y \in {"undefined", "GOOG"}, p \in {-1, 0, 150}}

NoteData ==
  {[none |-> FALSE, title |-> t, content |-> c] :
     t \in {"undefined", "Todo"}, c \in {"undefined", "", "milk"}}

MapData == {[none |-> FALSE, location |-> l] : l \in {"undefined", "Tokyo"}}

\* Messages with one render_widget call
WidgetMsgs ==
  {[interrupted |-> FALSE, audio |-> 0,
    calls |-> <<[name |-> "render_widget",
                 args |-> [none |-> FALSE, widget_type |-> w[1], data |-> w[2]]]>>] :
     w \in ({"weather_card"} \X (WeatherData \cup {NoArgs}))
             \cup ({"stock_chart"} \X StockData)
             \cup ({"note_pad"} \X NoteData)
             \cup ({"map_view", "gauge"} \X MapData)}

\* The session is opened and renders the widgets the agent asks for
NextWidget ==
  \/ StartSession
  \/ \E g \in Sessions : GumResolve(g)
  \/ \E g \in Sessions : OnOpen(g)
  \/ \E g \in Sessions, m \in WidgetMsgs :
       Len(handlers) < MaxToolMsgs /\ OnMessage(g, m)

SpecWidget == Init /\ [][NextWidget]_vars

\* The chunk durations of the playback example, 0.50 s, 0.30 s and 0.20 s, in
\* tenths of a second; where they are played the clock counts tenths too
ExampleDurs == <<5, 3, 2>>

\* The session is opened and receives the three chunks of the example, in
\* this order
NextExample ==
  \/ StartSession
  \/ \E g \in Sessions : GumResolve(g)
  \/ \E g \in Sessions : OnOpen(g)
  \/ \E g \in Sessions :
       /\ Len(handlers) < Len(ExampleDurs)
       /\ OnMessage(g, [interrupted |-> FALSE, calls |-> <<>>,
                        audio |-> ExampleDurs[Len(handlers) + 1]])
  \/ \E h \in 1..MaxMsgs : DecodeDone(h)
  \/ \E b \in 1..MaxMsgs : Ended(b)
  \/ Tick

SpecExample == Init /\ [][NextExample]_vars

\* Messages that carry an audio chunk of d seconds and nothing else
ChunkMsgs == {[interrupted |-> FALSE, calls |-> <<>>, audio |-> d] : d \in 1..MaxDur}

\* Messages with a chunk and one call: a search, which is awaited, or a
\* reminder, which is not
SlowMixedMsgs ==
  {m \in MixedMsgs : m.calls[1].name \in {"search_web", "set_reminder"} /\ ~m.calls[1].args.none}

\* The session is opened and receives chunks, some in messages that also
\* carry a tool call; pending decodes settle in arrival order
NextOrder ==
  \/ StartSession
  \/ \E g \in Sessions : GumResolve(g)
  \/ \E g \in Sessions : OnOpen(g)
  \/ \E g \in Sessions, m \in ChunkMsgs \cup SlowMixedMsgs : OnMessage(g, m)
  \/ \E h \in 1..MaxMsgs : SearchResolve(h)
  \/ \E h \in 1..MaxMsgs : SearchReject(h)
  \/ \E h \in 1..MaxMsgs :
       /\ DecodeSettles(h)
       /\ \A k \in 1..(h - 1) : handlers[k].pc # "decode"
       /\ DecodeDone(h)
  \/ Tick

SpecOrder == Init /\ [][NextOrder]_vars

\* Messages with one call that sets the task
TaskCallMsgs ==
  {[interrupted |-> FALSE, calls |-> <<c>>, audio |-> 0] :
     c \in {x \in ToolShapes :
              x.name \in {"open_app", "search_web", "order_food"} /\ ~x.args.none}}

\* The session is opened and serves the calls that set the task; the task
\* timers run and the user authorises payments
NextTask ==
  \/ StartSession
  \/ \E g \in Sessions : GumResolve(g)
  \/ \E g \in Sessions : OnOpen(g)
  \/ \E g \in Sessions, m \in TaskCallMsgs : OnMessage(g, m)
  \/ \E h \in 1..MaxMsgs : SearchResolve(h)
  \/ \E h \in 1..MaxMsgs : SearchReject(h)
  \/ \E k \in 1..(3 * MaxMsgs) : FireTimer(k)
  \/ HandlePayment
  \/ TickTo(MaxTaskClock)

SpecTask == Init /\ [][NextTask]_vars

\* Everything at once
Next ==
  \/ NextSession
  \/ \E g \in Sessions, m \in AudioMsgs \cup ToolMsgs \cup MixedMsgs : OnMessage(g, m)
  \/ \E h \in 1..MaxMsgs : SearchResolve(h)
  \/ \E h \in 1..MaxMsgs : SearchReject(h)
  \/ \E h \in 1..MaxMsgs : DecodeDone(h)
  \/ \E h \in 1..MaxMsgs : DecodeFail(h)
  \/ \E b \in 1..MaxMsgs : Ended(b)
  \/ \E k \in 1..(3 * MaxMsgs) : FireTimer(k)
  \/ HandlePayment
  \/ Tick

Spec == Init /\ [][Next]_vars


\* ------------------------------------------------------------- the claims

\* Two sources scheduled one after the other on the same context with no
\* interrupt processed between their scheduling
SameRun(k) ==
  /\ k \in 1..(Len(bufs) - 1)
  /\ bufs[k].g = bufs[k + 1].g
  /\ bufs[k].ep = bufs[k + 1].ep

\* The output clock readings taken as chunks were received (line 408)
ArrivalReadings ==
  {handlers[h].readAt : h \in {x \in 1..Len(handlers) :
                                 ~handlers[x].msg.interrupted /\ handlers[x].readAt # -1}}

C3_NoOverlap ==
  \A j \in 1..Len(bufs), k \in 1..Len(bufs) :
    (j < k /\ bufs[j].g = bufs[k].g) => PlayStart(bufs[k]) >= PlayEnd(bufs[j])

\* C4, the chunks: every source scheduled after an interrupt was handed a
\* start time at or after the output clock time of that interrupt
C4_StartsAfterInterrupt ==
  \A b \in 1..Len(bufs) :
    bufs[b].ep # 0 => bufs[b].when >= handlers[bufs[b].ep].readAt

\* C4: the step that processes an interrupt message leaves the live set
\* empty, and every chunk scheduled after it starts at or after the output
\* clock time of the interrupt.
C4_InterruptFlushes ==
  /\ []C4_StartsAfterInterrupt
  /\ [][(/\ Len(handlers') = Len(handlers) + 1
         /\ handlers'[Len(handlers')].msg.interrupted) => sourcesRef' = {}]_vars

\* C4 witness: an interrupt stopped a source of the live set, and a chunk
\* received before that interrupt was scheduled after it
C4_FlushedThenScheduled ==
  \E b \in 1..Len(bufs), c \in 1..Len(bufs) :
    /\ bufs[b].st = "stopped"
    /\ bufs[c].ep # 0
    /\ bufs[c].h < bufs[c].ep


\* The tool responses handed to an open channel that carry the id
Responses(id) == {k \in 1..Len(sent) : sent[k].id = id /\ sent[k].delivered}

\* The onmessage invocation has returned or rejected
Finished(h) == handlers[h].pc \in {"done", "failed"}

\* The calls of the h-th message
Calls(h) == handlers[h].msg.calls

\* C1: no call is ever answered twice, and once the onmessage invocation that
\* received a call has finished, exactly one response with the call's id has
\* been sent on the channel, whatever else the message carries.
C1_ExactlyOneResponse ==
  \A h \in 1..Len(handlers) : \A i \in 1..Len(Calls(h)) :
    /\ Cardinality(Responses(Calls(h)[i].id)) <= 1
    /\ Finished(h) => Cardinality(Responses(Calls(h)[i].id)) = 1

\* C5: once stopSession has run, and until startSession runs again, the
\* session reads as closed and every channel is closed, closing, or a pending
\* connect that will be closed as soon as it resolves: none is connecting or
\* open.
C5_StopIsFinal ==
  stopped =>
    /\ status \in {"SESSION TERMINATED", "DISCONNECTED", "CONNECTION ERROR",
                   "INITIALIZATION FAILED"}
    /\ \A g \in Sessions :
         \/ sess[g].chan \in {"none", "closing", "closed", "errored"}
         \/ sess[g].chan = "connecting" /\ sess[g].closeReq

\* No microphone stream, audio context, processor, camera stream, frame timer
\* or channel is held: a pending connect with its close registered is not
\* counted as held
ZeroAcquired ==
  /\ \A g \in Sessions :
       /\ sess[g].mic # "live"
       /\ sess[g].inCtx # "running"
       /\ sess[g].outCtx # "running"
       /\ sess[g].proc # "connected"
       /\ sess[g].chan # "open"
       /\ sess[g].chan = "connecting" => sess[g].closeReq
  /\ \A c \in Cams : cams[c].stream # "live" /\ cams[c].timer # "on"
  /\ sourcesRef = {}

\* stopSession would change nothing
StopFixed ==
  /\ ~isActive
  /\ ~isCameraActive
  /\ status = "SESSION TERMINATED"
  /\ volume = 0
  /\ activeWidget = NoWidget
  /\ cams = CleanupVideoCams
  /\ sess = CleanupAudioSess
  /\ bufs = StopSources
  /\ frameIntervalRef = 0 /\ videoStreamRef = 0
  /\ sourcesRef = {} /\ scriptProcessorRef = 0 /\ sourceNodeRef = 0
  /\ audioStreamRef = 0 /\ inputContextRef = 0 /\ outputContextRef = 0
  /\ sessionPromiseRef = 0

\* C6: every stopSession call leaves a state in which a second call changes
\* nothing, and in which no device, timer or channel is held.
C6_StopTwice == [][StopSession => (StopFixed' /\ ZeroAcquired')]_vars

\* C7: the onerror step reports the error status and leaves the microphone
\* stream, the processor, the audio contexts, the live set, the channel and
\* the camera released.
C7_ErrorTearsDown ==
  [][(\E g \in Sessions : OnError(g)) =>
       (status' = "CONNECTION ERROR" /\ ~isActive' /\ ZeroAcquired')]_vars

\* C8: in a finished onmessage invocation that reached the tool loop, a call
\* whose name is not declared has exactly one response, with an error
\* payload, and every other call of the batch has its response.
C8_UnknownToolFails ==
  \A h \in 1..Len(handlers) :
    (Finished(h) /\ ~handlers[h].msg.interrupted) =>
      \A i \in 1..Len(Calls(h)) :
        Calls(h)[i].name \notin DeclaredTools =>
          /\ Cardinality(Responses(Calls(h)[i].id)) = 1
          /\ \A k \in Responses(Calls(h)[i].id) : sent[k].response.error
          /\ \A j \in 1..Len(Calls(h)) : Cardinality(Responses(Calls(h)[j].id)) = 1

\* C9: while one call of a batch awaits its search, every other call of the
\* batch that does not itself await a search has been answered.
C9_BatchConcurrent ==
  \A h \in 1..Len(handlers) :
    handlers[h].pc = "search" =>
      \A j \in 1..Len(Calls(h)) :
        (j # handlers[h].i /\ Calls(h)[j].name # "search_web")
          => Responses(Calls(h)[j].id) # {}

\* The handler of call i of the h-th message threw: a TypeError of its own,
\* or the rejection of the search
Threw(h, i) ==
  /\ i < handlers[h].i
  /\ Throws(Calls(h)[i]) \/ i \in handlers[h].rej

\* C10: a call whose handler threw has exactly one response, with the error
\* payload; the channel is still open; and once they have finished, the rest
\* of its batch and every message received after it are answered call by
\* call.
C10_ThrowIsContained ==
  \A h \in 1..Len(handlers) : \A i \in 1..Len(Calls(h)) :
    Threw(h, i) =>
      /\ Cardinality(Responses(Calls(h)[i].id)) = 1
      /\ \A k \in Responses(Calls(h)[i].id) : sent[k].response.error
      /\ sess[handlers[h].g].chan = "open"
      /\ Finished(h) =>
           \A j \in (i + 1)..Len(Calls(h)) : Cardinality(Responses(Calls(h)[j].id)) = 1
      /\ \A h2 \in (h + 1)..Len(handlers) :
           Finished(h2) =>
             \A j \in 1..Len(Calls(h2)) : Cardinality(Responses(Calls(h2)[j].id)) = 1


\* The step handles an interrupt message
InterruptStep ==
  /\ Len(handlers') = Len(handlers) + 1
  /\ handlers'[Len(handlers')].msg.interrupted

Sounding == {b \in 1..Len(bufs) : bufs[b].st = "live"}

\* C12, the state: the live set holds exactly the sources that were
\* scheduled and have not ended or been stopped
C12_LiveSetIsSounding == sourcesRef = Sounding

\* C12: in every reachable state the live set holds exactly the scheduled
\* sources that have not ended or been stopped; a step adds a source only as
\* it schedules it, removes a source only as it ends or is stopped, and a
\* source that has ended or been stopped never comes back.
C12_LiveSetExact ==
  /\ []C12_LiveSetIsSounding
  /\ [][/\ \A b \in sourcesRef' \ sourcesRef : b = Len(bufs) + 1 /\ Len(bufs') = b
        /\ \A b \in sourcesRef \ sourcesRef' : bufs'[b].st \in {"ended", "stopped"}
        /\ \A b \in 1..Len(bufs) : bufs[b].st # "live" => bufs'[b] = bufs[b]]_vars

\* C12 witness: one source played to its end, another was stopped
C12_EndedAndStopped ==
  \E b \in 1..Len(bufs), c \in 1..Len(bufs) :
    bufs[b].st = "ended" /\ bufs[c].st = "stopped"


\* No startSession is still on its way: none awaits the microphone, and no
\* channel is open or will open without being closed at once
NoStartPending ==
  \A g \in Sessions :
    /\ sess[g].pc # "gum"
    /\ sess[g].chan # "open"
    /\ sess[g].chan = "connecting" => sess[g].closeReq

\* C13: between a stopSession that found no start pending and the next
\* startSession, no step adds a source to the live set and no step changes
\* the task or the widget: what was in flight at the stop (a decode, a
\* search, a task timer) has ceased to have effects.
C13_StopSilences ==
  [][(stopped /\ stopped' /\ NoStartPending) =>
       /\ sourcesRef' \subseteq sourcesRef
       /\ task' = task
       /\ activeWidget' = activeWidget]_vars


\* C14: when getUserMedia rejects, the session stays active and goes on to
\* connect its channel.
C14_MicFailureDegrades ==
  [][\A g \in Sessions :
       GumReject(g) => (isActive' /\ sess'[g].chan \in {"connecting", "open"})]_vars

\* No camera stream is live and no frame timer is running
NoCamHeld == \A c \in Cams : cams[c].stream # "live" /\ cams[c].timer # "on"

\* C15: every step that ends the session or switches the camera off
\* (stopSession, onclose, onerror, stopVideo) leaves the frame timer stopped
\* and the camera stream released.
C15_SamplerStopsWithSession ==
  [][(\/ StopSession
      \/ StopVideo
      \/ \E g \in Sessions : OnClose(g)
      \/ \E g \in Sessions : OnError(g)) => NoCamHeld']_vars

\* C16: the step that handles a rejected camera getUserMedia leaves the
\* camera flag off and changes nothing else: not the status, the audio
\* pipeline, the watermark, the live set, the task, the widget, the pending
\* handlers, the responses or the timers.
C16_CamFailureIsLocal ==
  [][\A c \in Cams :
       CamReject(c) =>
         /\ ~isCameraActive'
         /\ UNCHANGED <<isActive, status, volume, task, activeWidget>>
         /\ UNCHANGED <<inputContextRef, outputContextRef, sessionPromiseRef,
                        scriptProcessorRef, sourceNodeRef, audioStreamRef,
                        nextStartTimeRef, sourcesRef>>
         /\ UNCHANGED <<sess, bufs, handlers, sent, timers>>]_vars

\* C16 witness: a camera acquisition has failed on a session that is open
\* and capturing
C16_CamFailedWhileOpen ==
  \E c \in Cams, g \in Sessions :
    /\ cams[c].pc = "failed"
    /\ sess[g].chan = "open"
    /\ sess[g].proc = "connected"
    /\ status = "NEURAL LINK ACTIVE"
    /\ isActive

\* The channels that are open, or connecting with no close registered
LiveChannels ==
  {g \in Sessions : \/ sess[g].chan = "open"
                    \/ sess[g].chan = "connecting" /\ ~sess[g].closeReq}

\* C17: at most one channel is open or connecting at any time.
C17_OneSession == Cardinality(LiveChannels) <= 1

\* The status texts of a session that is connecting
ConnectingStatus == {"INITIALIZING NEURAL LINK...", "ESTABLISHING UPLINK..."}

\* C18: the status becomes NEURAL LINK ACTIVE only in a step taken from a
\* connecting status, never from a closed or error status.
C18_OpenOnlyFromConnecting ==
  [][(status' = "NEURAL LINK ACTIVE" /\ status # "NEURAL LINK ACTIVE")
       => status \in ConnectingStatus]_vars


\* The value a field is meant to take: the supplied one, or the default when
\* the call leaves the field out
GivenStr(x, d) == IF x = "undefined" THEN d ELSE x
GivenNum(x, d) == IF x = -1 THEN d ELSE x

\* The widget C19 describes for a call of one of the three variants with
\* defaults (the history follows the price)
DescribedWidget(type, data) ==
  IF type = "weather_card"
  THEN [type |-> "weather",
        data |-> [location |-> GivenStr(data.location, "Unknown"),
                  temp |-> GivenNum(data.temp, 22),
                  condition |-> GivenStr(data.condition, "Sunny")]]
  ELSE IF type = "stock_chart"
  THEN [type |-> "stock",
        data |-> [symbol |-> GivenStr(data.symbol, "STK"),
                  price |-> GivenNum(data.price, 100),
                  history |-> GivenNum(data.price, 100)]]
  ELSE [type |-> "note",
        data |-> [title |-> GivenStr(data.title, "Note"),
                  content |-> GivenStr(data.content, "")]]

\* C19: the step that handles a render_widget call for the weather, stock or
\* note variant leaves the widget with every field at the supplied value, or
\* at the default where the call supplies none.
C19_WidgetFields ==
  [][(Len(handlers') = Len(handlers) + 1 /\ Len(handlers'[Len(handlers')].msg.calls) = 1) =>
       LET fc == handlers'[Len(handlers')].msg.calls[1]
       IN (/\ fc.name = "render_widget"
           /\ ~fc.args.none
           /\ fc.args.widget_type \in {"weather_card", "stock_chart", "note_pad"}
           /\ ~fc.args.data.none)
            => activeWidget' = DescribedWidget(fc.args.widget_type, fc.args.data)]_vars


\* The start time handed to the source of the chunk of the h-th message
StartOf(h) == bufs[CHOOSE b \in 1..Len(bufs) : bufs[b].h = h].when

ScheduledBefore(h) == {b \in 1..Len(bufs) : bufs[b].ep < h}

\* C21: once an interrupt has been handled, every source scheduled before it
\* has ended or been stopped, is out of the live set, and fell silent no
\* later than the output clock time of the interrupt.
C21_SilentAfterInterrupt ==
  \A h \in 1..Len(handlers) :
    handlers[h].msg.interrupted =>
      \A b \in ScheduledBefore(h) :
        /\ bufs[b].st \in {"ended", "stopped"}
        /\ b \notin sourcesRef
        /\ PlayEnd(bufs[b]) <= handlers[h].readAt

\* C21 witness: an interrupt cut a source short while another source
\* scheduled before it had already played to its end
C21_CutShort ==
  \E h \in 1..Len(handlers), b \in 1..Len(bufs), c \in 1..Len(bufs) :
    /\ handlers[h].msg.interrupted
    /\ {b, c} \subseteq ScheduledBefore(h)
    /\ bufs[b].st = "stopped"
    /\ bufs[b].stoppedAt < PlayStart(bufs[b]) + bufs[b].dur
    /\ bufs[c].st = "ended"


\* The chunk of the h-th message has been handed to the audio output
Scheduled(h) == \E b \in 1..Len(bufs) : bufs[b].h = h

\* C22: of two chunks received on the same session, the later one is never
\* scheduled before the earlier one, and once both are scheduled the earlier
\* one has the earlier start time.
C22_ArrivalOrder ==
  \A a \in 1..Len(handlers), b \in 1..Len(handlers) :
    (/\ a < b
     /\ handlers[a].g = handlers[b].g
     /\ handlers[a].msg.audio # 0
     /\ handlers[b].msg.audio # 0
     /\ Scheduled(b))
      => Scheduled(a) /\ StartOf(a) < StartOf(b)


\* The statuses of a task in progress
InProgress == {"opening", "searching", "processing", "payment"}

\* C23: no step takes the task from an in-progress status straight to idle;
\* it passes through completed first.
C23_CompletedBeforeIdle ==
  [][task.status \in InProgress => task'.status # "idle"]_vars

\* The calls that set the task
TaskTools == {"search_web", "order_food", "open_app"}

\* The appName, status and description the task takes from a call
TaskLabel(fc) ==
  IF fc.name = "search_web"
  THEN <<"NetSearch", "searching", <<"QUERYING GLOBAL NETWORK", fc.args.query>>>>
  ELSE IF fc.name = "order_food"
  THEN <<"FoodDelivery", "processing", <<"Ordering", fc.args.item>>>>
  ELSE <<fc.args.app_name, "opening", <<"LAUNCHING...">>>>

\* The calls of the h-th message whose handler the step has started: those
\* from position from on that the loop has passed or now awaits
StartedInStep(h, from) ==
  {j \in from..Len(handlers'[h].msg.calls) :
     /\ handlers'[h].msg.calls[j].name \in TaskTools
     /\ ~Throws(handlers'[h].msg.calls[j])
     /\ \/ j < handlers'[h].i
        \/ j = handlers'[h].i /\ handlers'[h].pc = "search"}

\* The task is the one the last of these calls asks for
TaskIsLastOf(h, js) ==
  js # {} =>
    LET fc == handlers'[h].msg.calls[CHOOSE j \in js : \A k \in js : k <= j]
    IN /\ task'.isActive
       /\ <<task'.appName, task'.status, task'.actionDescription>> = TaskLabel(fc)

\* C24: a step that starts the handler of a task-setting call leaves the task
\* with that call's appName, status and description, whatever the task was
\* before; with several such calls in the step, the last one wins.
C24_LastWriteWins ==
  [][/\ (Len(handlers') = Len(handlers) + 1 /\ ~handlers'[Len(handlers')].msg.interrupted)
          => TaskIsLastOf(Len(handlers'), StartedInStep(Len(handlers'), 1))
     /\ \A h \in 1..Len(handlers) :
          (handlers[h].pc = "search" /\ handlers'[h] # handlers[h])
            => TaskIsLastOf(h, StartedInStep(h, handlers[h].i + 1))]_vars

\* C24 witness: an app is being opened while the payment timer of an order
\* that it replaced is still pending
C24_ReplacedInProgress ==
  /\ task.status = "opening"
  /\ \E k \in 1..Len(timers) : timers[k].kind = "payment"

\* The call with the given id
CallOf(id) ==
  LET h == CHOOSE x \in 1..Len(handlers) : \E j \in 1..Len(Calls(x)) : Calls(x)[j].id = id
  IN Calls(h)[CHOOSE j \in 1..Len(Calls(h)) : Calls(h)[j].id = id]

\* The appName of the task a timer was started for; the timer of
\* handlePayment belongs to an order
TimerApp(t) == IF t.by = 0 THEN "FoodDelivery" ELSE TaskLabel(CallOf(t.by))[1]

\* C27: a timer started for a task with another appName than the task now
\* shown, that is for a task that has been replaced, leaves the task as it is
\* when it fires.
C27_TimersOwnTask ==
  [][\A k \in 1..Len(timers) :
       (FireTimer(k) /\ task.isActive /\ TimerApp(timers[k]) # task.appName)
         => task' = task]_vars

\* C28: the task is inactive exactly when its status is idle.
C28_InactiveIffIdle == (~task.isActive) <=> (task.status = "idle")

\* C29: whenever the task shows searching and no search is under way any
\* more, a timer that clears the task is pending, so that the task returns to
\* idle without any further call.
C29_SearchClears ==
  (task.status = "searching" /\ \A h \in 1..Len(handlers) : handlers[h].pc # "search")
    => \E k \in 1..Len(timers) : timers[k].kind = "idle"


\* C25: a failed decode is handled inside onmessage: the invocation drops the
\* chunk, logs the failure and returns, so no invocation ends with the
\* rejection of the decode.
C25_DecodeFailureCaught ==
  \A h \in 1..Len(handlers) : handlers[h].pc # "failed"


\* C26: every buffer scheduled after an interrupt belongs to a chunk that
\* arrived after that interrupt; a chunk whose decode was pending when the
\* interrupt was processed is not scheduled.
C26_PendingChunkDropped ==
  \A b \in 1..Len(bufs) : bufs[b].ep # 0 => bufs[b].h > bufs[b].ep


\* C30: at most one camera stream is live and at most one frame timer runs,
\* and each of them is the one the refs hold, so that stopVideo releases it.
C30_OneCamera ==
  /\ Cardinality({c \in Cams : cams[c].stream = "live"}) <= 1
  /\ Cardinality({c \in Cams : cams[c].timer = "on"}) <= 1
  /\ \A c \in Cams : /\ cams[c].stream = "live" => videoStreamRef = c
                     /\ cams[c].timer = "on" => frameIntervalRef = c

====
